---- MODULE Spec2Model ----
(***************************************************************************)
(* Model of the DQN batch-training engine of vel                           *)
(* (src/vel/rl/reinforcers/old/dqn_reinforcer.py): DqnReinforcer's          *)
(* initialize_training, train_epoch and train_batch as a state machine.    *)
(*                                                                         *)
(* Numbers: the discount factor is held in tenths (discount_factor = 9     *)
(* stands for 0.9), so every quantity that is multiplied by it is held in  *)
(* tenths too; rewards, network outputs and parameters are integers.       *)
(* The network is a per-action value table (one value per discrete action, *)
(* the same for every observation).                                        *)
(*                                                                         *)
(* ClassicStorage (src/waterboy/storage/classic.py) is modelled in the     *)
(* second half: the checkpoint directory, checkpoint, clean and            *)
(* resume_learning, over processes that end and are started again.         *)
(***************************************************************************)
EXTENDS Integers, Sequences, FiniteSets, TLC

\* ---------------------------------------------------------------- bounds
MaxTrainFrequency == 2
MaxInitialSize == 4
MaxBatches == 2
MaxCallbacks == 2
EpisodeLength == 2

Actions == {1, 2}
BatchSizes == {1, 2}
Weights == {1, 2}
Discounts == {5, 9}
TargetUpdateFrequencies == {2}
InitWeights == {<<0, 1>>, <<1, 0>>}
\* Python's None; a value that is present is held in a one-element tuple
None == <<>>

\* tenths: the unit discount_factor (a float in [0, 1)) is held in
Scale == 10

VARIABLES
    pc,                  \* position of the single thread of control
    caller,              \* who called train_batch: "driver" or "epoch"
    settings,            \* DqnReinforcerSettings
    train_params,        \* self.train_model's parameters
    target_params,       \* self.target_model's parameters
    grads,               \* .grad of the train model's parameters (tenths, times batch size)
    buffer_size,         \* env_roller: transitions held by the replay buffer
    env_steps,           \* env_roller: steps taken in the environment so far
    epoch,               \* train_epoch's locals and the EpochInfo it was given
    batch_info,          \* the BatchInfo scratch map: key -> value
    frames,              \* train_batch local
    episode_information, \* train_batch local
    i,                   \* train_batch local: the for loop's index
    batch_sample,        \* train_batch local: what env_roller.sample returned
    expected_q,          \* train_batch local (tenths)
    original_losses,     \* train_batch local (in 1/200)
    n_batches,           \* batches started so far (BatchInfo's progress)
    initialized,         \* initialize_training has been called
    history,             \* every value train_params has held since its last reset
    reset_weights,       \* what the last reset_weights() set the train model to
    batches_since_sync,  \* train_batch calls completed since the last copy into the target
    trace,               \* the current train_batch: what is_ready_for_sampling() said at line 115, then its calls in order
    etrace,              \* the calls made by the current train_epoch, in order
    update_args,         \* the arguments of the env_roller.update call just made
    spc,                 \* ClassicStorage: the position of the driver in its calls
    files,               \* the checkpoint directory: file name -> content
    cleaned,             \* ClassicStorage.cleaned
    strategy,            \* checkpoint_strategy.current_best_checkpoint_idx
    restored,            \* the hidden state Storage.restore was last given
    scall,               \* the arguments and locals of the storage call in progress
    slog,                \* this ClassicStorage instance: its calls and their effects outside it, in order
    driver_epoch,        \* the driver's global epoch index: epochs done
    result,              \* what resume_learning returned
    params_before,       \* the model's parameters when resume_learning was called
    sessions,            \* processes started on this checkpoint directory
    cpc,                 \* cycle.py: the position of the driver and of _init_cycle_dict
    phase,               \* the CyclePhase
    callback,            \* the CycleCallback (phase.special_callback)
    init_locals,         \* the locals of _init_cycle_dict
    cbatch,              \* the BatchInfo of the last on_batch_begin and its numerator and denominator
    lr                   \* the learning rate of the optimizer's parameter groups

vars == <<pc, caller, settings, train_params, target_params, grads, buffer_size, env_steps,
          epoch, batch_info, frames, episode_information, i, batch_sample,
          expected_q, original_losses, n_batches, initialized, history, reset_weights,
          batches_since_sync, trace, etrace, update_args,
          spc, files, cleaned, strategy, restored, scall, slog, driver_epoch, result,
          params_before, sessions,
          cpc, phase, callback, init_locals, cbatch, lr>>

cycleVars == <<cpc, phase, callback, init_locals, cbatch, lr>>
storeVars == <<spc, files, cleaned, strategy, restored, scall, slog, driver_epoch, result,
               params_before, sessions>>
dqnVars == <<pc, caller, settings, target_params, grads, buffer_size, env_steps,
             epoch, batch_info, frames, episode_information, i, batch_sample,
             expected_q, original_losses, n_batches, initialized, history, reset_weights,
             batches_since_sync, trace, etrace, update_args>>

modelVars == <<train_params, target_params, grads, history, reset_weights>>
localVars == <<frames, episode_information, i, batch_sample, expected_q, original_losses>>
ghostVars == <<batches_since_sync, trace, etrace, update_args>>

\* ------------------------------------------------------------- settings
\* DqnReinforcerSettings: an attrs class, no validators.
DqnReinforcerSettings ==
    [train_frequency : 1..MaxTrainFrequency,
     batch_size : BatchSizes,
     double_dqn : BOOLEAN,
     target_update_frequency : TargetUpdateFrequencies,
     discount_factor : Discounts,
     max_grad_norm : {None, <<1>>}]

\* --------------------------------------------------------------- metrics
\* a metrics() that declares the gradient norm whatever the settings
metrics_GradNormAlways(s) ==
    <<"frames", "fps", "PMM:episode_rewards", "P09:episode_rewards",
      "P01:episode_rewards", "episode_length", "grad_norm">>

\* lines 52-66: the names of the metrics tracked for this learning process
metrics(s) ==
    LET my_metrics == <<"frames", "fps", "PMM:episode_rewards", "P09:episode_rewards",
                        "P01:episode_rewards", "episode_length">>
    IN  IF s.max_grad_norm # None THEN Append(my_metrics, "grad_norm") ELSE my_metrics

\* the scratch field of batch_info each metric is calculated from
MetricField(name) ==
    CASE name \in {"frames", "fps"} -> "frames"
      [] name \in {"PMM:episode_rewards", "P09:episode_rewards", "P01:episode_rewards",
                   "episode_length"} -> "episode_infos"
      [] name = "grad_norm" -> "grad_norm"

\* ------------------------------------------------------------ env-roller
\* ReplayEnvRoller.is_ready_for_sampling(): the buffer holds its initial size.
IsReadyForSampling(size) == size >= MaxInitialSize

\* ReplayEnvRoller.rollout: one environment step, one buffer insertion
\* (a circular buffer of capacity MaxInitialSize).
RolloutBuffer(size) == IF size < MaxInitialSize THEN size + 1 ELSE size

\* what rollout returns: None, or the record of the episode that this step
\* ended (the environment's episodes are EpisodeLength steps long; the record
\* carries the episode's number)
RolloutResult(steps) ==
    IF (steps + 1) % EpisodeLength = 0 THEN <<(steps + 1) \div EpisodeLength>> ELSE None

\* the environment's step counter after one rollout
RolloutSteps(steps) == steps + 1

\* the environment's reward: +1 for the first action, -1 for the second
Reward(action) == IF action = 1 THEN 1 ELSE -1

\* one replayed transition: the action taken, its reward, whether it ended the
\* episode, and its importance-sampling weight
Transitions == {[action |-> a, reward |-> Reward(a), done |-> d, weight |-> w] :
                    a \in Actions, d \in {0, 1}, w \in Weights}

\* ReplayEnvRoller.sample(batch_info, batch_size, model): batch_size transitions
Samples(n) == [1..n -> Transitions]

\* Schedule.value(progress): epsilon decays with progress
ScheduleValue(progress) == IF progress >= MaxBatches THEN 0 ELSE MaxBatches - progress

\* ------------------------------------------------------- the computation
RECURSIVE MaxOf(_)
\* tensor.max(dim=1)[0] of one row
MaxOf(row) ==
    IF Len(row) = 1 THEN row[1]
    ELSE LET m == MaxOf(SubSeq(row, 1, Len(row) - 1))
         IN  IF row[Len(row)] > m THEN row[Len(row)] ELSE m

\* tensor.argmax(dim=1) of one row: the first index holding the maximum
ArgMax(row) == CHOOSE a \in 1..Len(row) :
                   /\ row[a] = MaxOf(row)
                   /\ \A b \in 1..(a - 1) : row[b] < row[a]

\* model(observation): the per-action values of the value table
Forward(params) == params

\* a selection that takes the target network's own maximum in both branches
SelectedValue_TargetMax(double_dqn, target_values, model_values) ==
    MaxOf(target_values)

\* lines 145-153: the bootstrap value of one sample
SelectedValue(double_dqn, target_values, model_values) ==
    IF double_dqn
    THEN target_values[ArgMax(model_values)]
    ELSE MaxOf(target_values)

\* a target that bootstraps from terminal transitions too
ExpectedQ_NoDoneMask(reward, value, done, discount_factor) ==
    Scale * reward + discount_factor * value

\* line 155, in tenths: rewards + discount_factor * values * (1 - dones)
ExpectedQ(reward, value, done, discount_factor) ==
    Scale * reward + discount_factor * value * (1 - done)

Abs(x) == IF x < 0 THEN -x ELSE x
Sgn(x) == IF x < 0 THEN -1 ELSE IF x > 0 THEN 1 ELSE 0

\* F.smooth_l1_loss(q, e, reduction='none') of one sample, in 1/200:
\* 0.5 x^2 when |x| < 1, |x| - 0.5 otherwise (x in tenths here)
SmoothL1(q_selected, expected) ==
    LET x == Scale * q_selected - expected
    IN  IF Abs(x) < Scale THEN x * x ELSE 2 * Scale * Abs(x) - Scale * Scale

\* d smooth_l1 / d q of one sample, in tenths: x clipped to [-1, 1]
SmoothL1Grad(q_selected, expected) ==
    LET x == Scale * q_selected - expected
    IN  IF Abs(x) < Scale THEN x ELSE Scale * Sgn(x)

\* lines 147-155 over the whole sample
ExpectedQs(sample, s, train, target) ==
    [k \in DOMAIN sample |->
        ExpectedQ(sample[k].reward,
                  SelectedValue(s.double_dqn, Forward(target), Forward(train)),
                  sample[k].done, s.discount_factor)]

\* lines 157-160: q.gather(1, actions) and the per-sample loss
OriginalLosses(sample, eq, train) ==
    [k \in DOMAIN sample |-> SmoothL1(Forward(train)[sample[k].action], eq[k])]

RECURSIVE GradOf(_, _, _, _, _)
\* d (sum_k weights[k] * losses[k]) / d params[a], summed over samples 1..n
GradOf(a, sample, eq, train, n) ==
    IF n = 0 THEN 0
    ELSE GradOf(a, sample, eq, train, n - 1)
         + (IF sample[n].action = a
            THEN sample[n].weight * SmoothL1Grad(Forward(train)[a], eq[n])
            ELSE 0)

\* lines 162-165: loss = mean(weights * original_losses); loss.backward()
\* adds the loss's gradient to the .grad of each parameter
Backward(g, sample, eq, train) ==
    [g EXCEPT !.g = [a \in DOMAIN train |->
                        g.g[a] + GradOf(a, sample, eq, train, Len(sample))]]

\* the squared global norm of the gradient
NormSquared(g) == g[1] * g[1] + g[2] * g[2]

\* clip_grad_norm_: the gradient is scaled by max_norm / norm when norm > max_norm.
\* g keeps the direction; clipped records that the scaling was applied.
ClipGradNorm(g, max_norm, n) ==
    [g EXCEPT !.clipped = NormSquared(g.g) > (max_norm * Scale * n) * (max_norm * Scale * n)]

\* optimizer.step(): every parameter moves against its gradient; a parameter
\* whose gradient is zero stays
OptimizerStep(params, g) == [a \in DOMAIN params |-> params[a] - Sgn(g.g[a])]

ZeroGrads == [g |-> <<0, 0>>, clipped |-> FALSE]

\* ------------------------------------------------------------ the state
NoEpoch == [batches_per_epoch |-> 0, callbacks |-> 0, batch_idx |-> 0, cb |-> 0,
            calculated |-> 0, frozen |-> 0]
NoBatchInfo == <<>>
NoSample == <<>>

\* cycle.py: no CyclePhase has been created yet
NoPhase ==
    /\ cpc = "start"
    /\ phase = None
    /\ callback = None
    /\ init_locals = None
    /\ cbatch = None
    /\ lr = None

\* classic.py lines 17-23: a new ClassicStorage in a new process, before the
\* driver's first call
NewStorage ==
    /\ spc = "start"
    /\ cleaned = FALSE
    /\ strategy = None
    /\ restored = None
    /\ scall = <<>>
    /\ slog = <<>>
    /\ driver_epoch = 0
    /\ result = None
    /\ params_before = None

\* DqnReinforcerFactory.instantiate: two models built independently by the
\* model factory, whatever their initial weights; the env-roller's buffer is empty
Instantiate ==
    /\ pc = "idle"
    /\ caller = "driver"
    /\ train_params \in InitWeights
    /\ target_params \in InitWeights
    /\ grads = ZeroGrads
    /\ buffer_size = 0
    /\ env_steps = 0
    /\ epoch = NoEpoch
    /\ batch_info = NoBatchInfo
    /\ frames = 0
    /\ episode_information = <<>>
    /\ i = 0
    /\ batch_sample = NoSample
    /\ expected_q = <<>>
    /\ original_losses = <<>>
    /\ n_batches = 0
    /\ initialized = FALSE
    /\ history = {train_params}
    /\ reset_weights = None
    /\ batches_since_sync = 0
    /\ trace = <<>>
    /\ etrace = <<>>
    /\ update_args = <<>>
    /\ NewStorage
    /\ files = <<>>
    /\ sessions = 1
    /\ NoPhase

\* the reinforcer as the factory hands it to the driver, with settings that
\* meet the documented ranges
Init ==
    /\ settings \in DqnReinforcerSettings
    /\ Instantiate

\* what create can be called with: values inside and outside the documented
\* ranges (a zero train_frequency, batch_size, target_update_frequency and
\* max_grad_norm; a discount factor of 1.0)
CreateArguments ==
    [train_frequency : {0, 1},
     batch_size : {0, 1},
     double_dqn : {FALSE},
     target_update_frequency : {0, 2},
     discount_factor : {9, Scale},
     max_grad_norm : {None, <<0>>}]

\* lines 204-221 and 20-32: create hands its arguments to DqnReinforcerSettings
\* as they are; the attrs class stores them without a validator
create(a) ==
    [train_frequency |-> a.train_frequency,
     batch_size |-> a.batch_size,
     double_dqn |-> a.double_dqn,
     target_update_frequency |-> a.target_update_frequency,
     discount_factor |-> a.discount_factor,
     max_grad_norm |-> a.max_grad_norm]

\* the reinforcer instantiated from whatever create was called with
InitCreate ==
    /\ settings \in {create(a) : a \in CreateArguments}
    /\ Instantiate

Event(e, b, c) == [e |-> e, b |-> b, c |-> c]

\* BatchInfo(epoch_info, batch_idx): a fresh scratch map carrying the progress
BatchInfo(progress) == [k \in {"progress"} |-> progress]

\* batch_info[key] = value
SetItem(info, key, value) ==
    [k \in DOMAIN info \cup {key} |-> IF k = key THEN value ELSE info[k]]

\* ------------------------------------------------- initialize_training
\* an initialize_training that resets the train model and forgets the copy
InitializeTraining_NoCopy ==
    /\ pc = "idle"
    /\ \E w \in InitWeights :
        /\ train_params' = w
        /\ history' = {w}
        /\ reset_weights' = w
    /\ initialized' = TRUE
    /\ batches_since_sync' = 0
    /\ UNCHANGED <<cycleVars, storeVars, pc, caller, settings, target_params, grads, buffer_size, env_steps,
                   epoch, batch_info, localVars, n_batches, trace, etrace, update_args>>

\* lines 72-75: reset the train model's weights, copy them into the target
InitializeTraining ==
    /\ pc = "idle"
    /\ \E w \in InitWeights :
        /\ train_params' = w
        /\ target_params' = w
        /\ history' = {w}
        /\ reset_weights' = w
    /\ initialized' = TRUE
    /\ batches_since_sync' = 0
    /\ UNCHANGED <<cycleVars, storeVars, pc, caller, settings, grads, buffer_size, env_steps, epoch, batch_info,
                   localVars, n_batches, trace, etrace, update_args>>

\* ---------------------------------------------------------- train_epoch
\* a batch loop that goes into train_batch without the on_batch_begin calls
BatchLoopHead_NoBatchBegin(e) ==
    IF e.batch_idx < e.batches_per_epoch THEN "tb_start" ELSE "freeze_results"

\* where train_epoch goes after the on_epoch_begin loop and after each batch:
\* the head of the for loop of line 81
BatchLoopHead(e) ==
    IF e.batch_idx < e.batches_per_epoch
    THEN IF e.callbacks > 0 THEN "batch_begin" ELSE "tb_start"
    ELSE "freeze_results"

\* the driver calls train_epoch(epoch_info), after initialize_training()
TrainEpoch ==
    /\ pc = "idle"
    /\ initialized
    /\ \E bpe \in 0..(MaxBatches - n_batches) :
        /\ epoch' = [NoEpoch EXCEPT !.batches_per_epoch = bpe,
                                    !.callbacks = MaxCallbacks, !.cb = 1]
        /\ pc' = IF MaxCallbacks > 0 THEN "epoch_begin" ELSE "batch_loop"
    /\ etrace' = <<>>
    /\ UNCHANGED <<cycleVars, storeVars, caller, settings, modelVars, buffer_size, env_steps, batch_info, localVars,
                   n_batches, initialized, batches_since_sync, trace, update_args>>

\* lines 78-79: one callback's on_epoch_begin
OnEpochBegin ==
    /\ pc = "epoch_begin"
    /\ etrace' = Append(etrace, Event("on_epoch_begin", -1, epoch.cb))
    /\ epoch' = [epoch EXCEPT !.cb = IF epoch.cb < epoch.callbacks THEN epoch.cb + 1 ELSE 1]
    /\ pc' = IF epoch.cb < epoch.callbacks THEN "epoch_begin" ELSE "batch_loop"
    /\ UNCHANGED <<cycleVars, storeVars, caller, settings, modelVars, buffer_size, env_steps, batch_info, localVars,
                   n_batches, initialized, batches_since_sync, trace, update_args>>

\* lines 81-82: the for loop's head; a new BatchInfo for the next batch
BatchLoop ==
    /\ pc = "batch_loop"
    /\ pc' = BatchLoopHead(epoch)
    /\ batch_info' = IF epoch.batch_idx < epoch.batches_per_epoch
                     THEN BatchInfo(n_batches) ELSE NoBatchInfo
    /\ caller' = "epoch"
    /\ UNCHANGED <<cycleVars, storeVars, settings, modelVars, buffer_size, env_steps, epoch, localVars, n_batches,
                   initialized, ghostVars>>

\* lines 84-85: one callback's on_batch_begin
OnBatchBegin ==
    /\ pc = "batch_begin"
    /\ etrace' = Append(etrace, Event("on_batch_begin", epoch.batch_idx, epoch.cb))
    /\ epoch' = [epoch EXCEPT !.cb = IF epoch.cb < epoch.callbacks THEN epoch.cb + 1 ELSE 1]
    /\ pc' = IF epoch.cb < epoch.callbacks THEN "batch_begin" ELSE "tb_start"
    /\ UNCHANGED <<cycleVars, storeVars, caller, settings, modelVars, buffer_size, env_steps, batch_info, localVars,
                   n_batches, initialized, batches_since_sync, trace, update_args>>

\* lines 89-90: one callback's on_batch_end
OnBatchEnd ==
    /\ pc = "batch_end"
    /\ etrace' = Append(etrace, Event("on_batch_end", epoch.batch_idx, epoch.cb))
    /\ epoch' = [epoch EXCEPT !.cb = IF epoch.cb < epoch.callbacks THEN epoch.cb + 1 ELSE 1]
    /\ pc' = IF epoch.cb < epoch.callbacks THEN "batch_end" ELSE "calculate"
    /\ UNCHANGED <<cycleVars, storeVars, caller, settings, modelVars, buffer_size, env_steps, batch_info, localVars,
                   n_batches, initialized, batches_since_sync, trace, update_args>>

\* a batch loop that folds each batch into the accumulator twice
Calculate_Twice ==
    /\ pc = "calculate"
    /\ etrace' = etrace \o <<Event("calculate", epoch.batch_idx, 0),
                              Event("calculate", epoch.batch_idx, 0)>>
    /\ epoch' = [epoch EXCEPT !.calculated = @ + 2, !.batch_idx = @ + 1]
    /\ pc' = "batch_loop"
    /\ UNCHANGED <<cycleVars, storeVars, caller, settings, modelVars, buffer_size, env_steps, batch_info, localVars,
                   n_batches, initialized, batches_since_sync, trace, update_args>>

\* line 92: epoch_info.result_accumulator.calculate(batch_info), then the next batch
Calculate ==
    /\ pc = "calculate"
    /\ etrace' = Append(etrace, Event("calculate", epoch.batch_idx, 0))
    /\ epoch' = [epoch EXCEPT !.calculated = @ + 1, !.batch_idx = @ + 1]
    /\ pc' = "batch_loop"
    /\ UNCHANGED <<cycleVars, storeVars, caller, settings, modelVars, buffer_size, env_steps, batch_info, localVars,
                   n_batches, initialized, batches_since_sync, trace, update_args>>

\* line 94: epoch_info.result_accumulator.freeze_results()
FreezeResults ==
    /\ pc = "freeze_results"
    /\ etrace' = Append(etrace, Event("freeze_results", -1, 0))
    /\ epoch' = [epoch EXCEPT !.frozen = 1]
    /\ pc' = "freeze_epoch_result"
    /\ UNCHANGED <<cycleVars, storeVars, caller, settings, modelVars, buffer_size, env_steps, batch_info, localVars,
                   n_batches, initialized, batches_since_sync, trace, update_args>>

\* line 95: epoch_info.freeze_epoch_result()
FreezeEpochResult ==
    /\ pc = "freeze_epoch_result"
    /\ etrace' = Append(etrace, Event("freeze_epoch_result", -1, 0))
    /\ epoch' = [epoch EXCEPT !.frozen = 2]
    /\ pc' = IF epoch.callbacks > 0 THEN "epoch_end" ELSE "epoch_return"
    /\ UNCHANGED <<cycleVars, storeVars, caller, settings, modelVars, buffer_size, env_steps, batch_info, localVars,
                   n_batches, initialized, batches_since_sync, trace, update_args>>

\* lines 97-98: one callback's on_epoch_end
OnEpochEnd ==
    /\ pc = "epoch_end"
    /\ etrace' = Append(etrace, Event("on_epoch_end", -1, epoch.cb))
    /\ epoch' = [epoch EXCEPT !.cb = IF epoch.cb < epoch.callbacks THEN epoch.cb + 1 ELSE 1]
    /\ pc' = IF epoch.cb < epoch.callbacks THEN "epoch_end" ELSE "epoch_return"
    /\ UNCHANGED <<cycleVars, storeVars, caller, settings, modelVars, buffer_size, env_steps, batch_info, localVars,
                   n_batches, initialized, batches_since_sync, trace, update_args>>

\* train_epoch returns to the driver
EpochReturn ==
    /\ pc = "epoch_return"
    /\ pc' = "idle"
    /\ epoch' = NoEpoch
    /\ etrace' = <<>>
    /\ caller' = "driver"
    /\ UNCHANGED <<cycleVars, storeVars, settings, modelVars, buffer_size, env_steps, batch_info, localVars,
                   n_batches, initialized, batches_since_sync, trace, update_args>>

\* ---------------------------------------------------------- train_batch
\* the driver calls train_batch(batch_info) itself, after initialize_training()
TrainBatch ==
    /\ pc = "idle"
    /\ initialized
    /\ n_batches < MaxBatches
    /\ pc' = "tb_start"
    /\ caller' = "driver"
    /\ batch_info' = BatchInfo(n_batches)
    /\ UNCHANGED <<cycleVars, storeVars, settings, modelVars, buffer_size, env_steps, epoch, localVars, n_batches,
                   initialized, ghostVars>>

\* line 115: the branch taken on is_ready_for_sampling()
RolloutBranch(size) == IF ~IsReadyForSampling(size) THEN "warm" ELSE "steady"

\* a warm-up loop that gives up one rollout early
WarmLoopContinues_StopsEarly(size) == size + 1 < MaxInitialSize

\* line 116: the while loop's condition
WarmLoopContinues(size) == ~IsReadyForSampling(size)

\* a steady-state loop that runs one turn too many
SteadyLoopContinues_OneMore(idx, s) == idx <= s.train_frequency

\* line 124: the for loop's condition
SteadyLoopContinues(idx, s) == idx < s.train_frequency

\* lines 103-115: eval mode, the empty episode list, epsilon, frames = 0, and
\* the branch on the buffer's readiness
TbPrepare ==
    /\ pc = "tb_start"
    /\ episode_information' = <<>>
    /\ batch_info' = SetItem(batch_info, "epsilon_value", ScheduleValue(batch_info["progress"]))
    /\ frames' = 0
    /\ i' = 0
    /\ pc' = RolloutBranch(buffer_size)
    /\ n_batches' = n_batches + 1
    /\ trace' = <<IF IsReadyForSampling(buffer_size) THEN "ready" ELSE "not_ready">>
    /\ etrace' = IF caller = "epoch"
                 THEN Append(etrace, Event("train_batch", epoch.batch_idx, 0))
                 ELSE etrace
    /\ UNCHANGED <<cycleVars, storeVars, caller, settings, modelVars, buffer_size, env_steps, epoch, batch_sample,
                   expected_q, original_losses, initialized, batches_since_sync,
                   update_args>>

\* a rollout loop that puts the newest episode record first
Collect_Prepend(infos, maybe_episode_info) ==
    IF maybe_episode_info # None THEN <<maybe_episode_info>> \o infos ELSE infos

\* lines 119-122 and 127-130: a rollout's return value is appended to
\* episode_information unless it is None
Collect(infos, maybe_episode_info) ==
    IF maybe_episode_info # None THEN Append(infos, maybe_episode_info) ELSE infos

\* lines 117-122 and 125-130: one env_roller.rollout and what is kept of it
Rollout ==
    /\ buffer_size' = RolloutBuffer(buffer_size)
    /\ env_steps' = RolloutSteps(env_steps)
    /\ episode_information' = Collect(episode_information, RolloutResult(env_steps))
    /\ frames' = frames + 1
    /\ trace' = Append(trace, "rollout")

\* lines 116-122: one turn of the warm-up loop
WarmRollout ==
    /\ pc = "warm"
    /\ WarmLoopContinues(buffer_size)
    /\ Rollout
    /\ UNCHANGED <<cycleVars, storeVars, pc, caller, settings, modelVars, epoch, batch_info, i, batch_sample,
                   expected_q, original_losses, n_batches, initialized,
                   batches_since_sync, etrace, update_args>>

\* a rollout phase without the else of line 123: the steady-state loop
\* follows the warm-up loop
WarmExit_ThenSteady ==
    /\ pc = "warm"
    /\ ~WarmLoopContinues(buffer_size)
    /\ pc' = "steady"
    /\ UNCHANGED <<cycleVars, storeVars, caller, settings, modelVars, buffer_size, env_steps, epoch, batch_info,
                   localVars, n_batches, initialized, ghostVars>>

\* line 116: the warm-up loop ends
WarmExit ==
    /\ pc = "warm"
    /\ ~WarmLoopContinues(buffer_size)
    /\ pc' = "zero_grad"
    /\ UNCHANGED <<cycleVars, storeVars, caller, settings, modelVars, buffer_size, env_steps, epoch, batch_info,
                   localVars, n_batches, initialized, ghostVars>>

\* lines 124-130: one turn of the steady-state loop
SteadyRollout ==
    /\ pc = "steady"
    /\ SteadyLoopContinues(i, settings)
    /\ Rollout
    /\ i' = i + 1
    /\ UNCHANGED <<cycleVars, storeVars, pc, caller, settings, modelVars, epoch, batch_info, batch_sample,
                   expected_q, original_losses, n_batches, initialized,
                   batches_since_sync, etrace, update_args>>

\* line 124: the steady-state loop ends
SteadyExit ==
    /\ pc = "steady"
    /\ ~SteadyLoopContinues(i, settings)
    /\ pc' = "zero_grad"
    /\ UNCHANGED <<cycleVars, storeVars, caller, settings, modelVars, buffer_size, env_steps, epoch, batch_info,
                   localVars, n_batches, initialized, ghostVars>>

\* a zero_grad that clears the parameters instead of their gradients
TbZeroGrad_ZeroesParams ==
    /\ pc = "zero_grad"
    /\ train_params' = <<0, 0>>
    /\ trace' = Append(trace, "zero_grad")
    /\ pc' = "sample"
    /\ UNCHANGED <<cycleVars, storeVars, caller, settings, grads, target_params, history, reset_weights, buffer_size, env_steps,
                   epoch, batch_info, localVars, n_batches, initialized,
                   batches_since_sync, etrace, update_args>>

\* lines 133-134: train mode, batch_info.optimizer.zero_grad()
TbZeroGrad ==
    /\ pc = "zero_grad"
    /\ grads' = ZeroGrads
    /\ trace' = Append(trace, "zero_grad")
    /\ pc' = "sample"
    /\ UNCHANGED <<cycleVars, storeVars, caller, settings, train_params, target_params, history, reset_weights, buffer_size, env_steps,
                   epoch, batch_info, localVars, n_batches, initialized,
                   batches_since_sync, etrace, update_args>>

\* lines 136-142: env_roller.sample(batch_info, batch_size, model)
TbSample ==
    /\ pc = "sample"
    /\ batch_sample' \in Samples(settings.batch_size)
    /\ trace' = Append(trace, "sample")
    /\ pc' = "forward"
    /\ UNCHANGED <<cycleVars, storeVars, caller, settings, modelVars, buffer_size, env_steps, epoch, batch_info, frames,
                   episode_information, i, expected_q, original_losses, n_batches,
                   initialized, batches_since_sync, etrace, update_args>>

\* lines 144-165: the targets, the per-sample losses, loss.backward()
TbForwardBackward ==
    /\ pc = "forward"
    /\ expected_q' = ExpectedQs(batch_sample, settings, train_params, target_params)
    /\ original_losses' = OriginalLosses(batch_sample, expected_q', train_params)
    /\ grads' = Backward(grads, batch_sample, expected_q', train_params)
    /\ trace' = Append(trace, "backward")
    /\ pc' = "update"
    /\ UNCHANGED <<cycleVars, storeVars, caller, settings, train_params, target_params, history, reset_weights, buffer_size, env_steps,
                   epoch, batch_info, frames, episode_information, i, batch_sample,
                   n_batches, initialized, batches_since_sync, etrace, update_args>>

\* an update that is handed the importance-weighted losses
UpdateArgs_Weighted(sample, losses) ==
    [sample |-> sample, losses |-> [k \in DOMAIN losses |-> sample[k].weight * losses[k]]]

\* line 167: what env_roller.update is called with
UpdateArgs(sample, losses) == [sample |-> sample, losses |-> losses]

\* optimizer.step() slipped into the body of the if of line 169
AfterUpdate_StepInsideIf(s) == IF s.max_grad_norm # None THEN "clip" ELSE "write"

\* lines 169-177: what follows env_roller.update
AfterUpdate(s) == IF s.max_grad_norm # None THEN "clip" ELSE "step"

\* line 167: env_roller.update(batch_sample, original_losses); line 169: the
\* branch on max_grad_norm. Nothing reads the sample, the targets or the
\* losses after this call.
TbUpdate ==
    /\ pc = "update"
    /\ update_args' = UpdateArgs(batch_sample, original_losses)
    /\ trace' = Append(trace, "update")
    /\ pc' = AfterUpdate(settings)
    /\ batch_sample' = NoSample
    /\ expected_q' = <<>>
    /\ original_losses' = <<>>
    /\ UNCHANGED <<cycleVars, storeVars, caller, settings, modelVars, buffer_size, env_steps, epoch, batch_info,
                   frames, episode_information, i, n_batches, initialized,
                   batches_since_sync, etrace>>

\* lines 170-175: clip_grad_norm_ and batch_info['grad_norm'] (the squared norm here)
TbClip ==
    /\ pc = "clip"
    /\ grads' = ClipGradNorm(grads, settings.max_grad_norm[1], settings.batch_size)
    /\ batch_info' = SetItem(batch_info, "grad_norm", NormSquared(grads.g))
    /\ trace' = Append(trace, "clip")
    /\ pc' = "step"
    /\ update_args' = <<>>
    /\ UNCHANGED <<cycleVars, storeVars, caller, settings, train_params, target_params, history, reset_weights, buffer_size, env_steps,
                   epoch, localVars, n_batches, initialized, batches_since_sync,
                   etrace>>

\* an optimizer built over the parameters of both models
TbOptimizerStep_BothModels ==
    /\ pc = "step"
    /\ train_params' = OptimizerStep(train_params, grads)
    /\ target_params' = OptimizerStep(target_params, grads)
    /\ history' = history \cup {train_params'}
    /\ trace' = Append(trace, "step")
    /\ pc' = "write"
    /\ update_args' = <<>>
    /\ UNCHANGED <<cycleVars, storeVars, caller, settings, grads, reset_weights, buffer_size, env_steps, epoch,
                   batch_info, localVars, n_batches, initialized, batches_since_sync,
                   etrace>>

\* line 177: batch_info.optimizer.step(closure=None)
TbOptimizerStep ==
    /\ pc = "step"
    /\ train_params' = OptimizerStep(train_params, grads)
    /\ history' = history \cup {train_params'}
    /\ trace' = Append(trace, "step")
    /\ pc' = "write"
    /\ update_args' = <<>>
    /\ UNCHANGED <<cycleVars, storeVars, caller, settings, target_params, grads, reset_weights, buffer_size, env_steps, epoch,
                   batch_info, localVars, n_batches, initialized, batches_since_sync,
                   etrace>>

\* lines 179-180: the frames and the episode records go into the scratch map
TbWrite ==
    /\ pc = "write"
    /\ batch_info' = SetItem(SetItem(batch_info, "frames", frames),
                             "episode_infos", episode_information)
    /\ pc' = "tb_return"
    /\ batches_since_sync' = batches_since_sync + 1
    /\ UNCHANGED <<cycleVars, storeVars, caller, settings, modelVars, buffer_size, env_steps, epoch, localVars,
                   n_batches, initialized, trace, etrace, update_args>>

\* train_batch returns: its locals are gone
TbReturn ==
    /\ pc = "tb_return"
    /\ pc' = IF caller = "epoch"
             THEN (IF epoch.callbacks > 0 THEN "batch_end" ELSE "calculate")
             ELSE "idle"
    /\ frames' = 0
    /\ episode_information' = <<>>
    /\ i' = 0
    /\ batch_sample' = NoSample
    /\ expected_q' = <<>>
    /\ original_losses' = <<>>
    /\ trace' = <<>>
    /\ update_args' = <<>>
    /\ batch_info' = IF caller = "epoch" THEN batch_info ELSE NoBatchInfo
    /\ etrace' = IF caller = "epoch"
                 THEN Append(etrace, Event("train_batch_return", epoch.batch_idx, 0))
                 ELSE etrace
    /\ UNCHANGED <<cycleVars, storeVars, caller, settings, modelVars, buffer_size, env_steps, epoch, n_batches,
                   initialized, batches_since_sync>>

Next ==
    \/ InitializeTraining
    \/ TrainEpoch
    \/ OnEpochBegin
    \/ BatchLoop
    \/ OnBatchBegin
    \/ OnBatchEnd
    \/ Calculate
    \/ FreezeResults
    \/ FreezeEpochResult
    \/ OnEpochEnd
    \/ EpochReturn
    \/ TrainBatch
    \/ TbPrepare
    \/ WarmRollout
    \/ WarmExit
    \/ SteadyRollout
    \/ SteadyExit
    \/ TbZeroGrad
    \/ TbSample
    \/ TbForwardBackward
    \/ TbUpdate
    \/ TbClip
    \/ TbOptimizerStep
    \/ TbWrite
    \/ TbReturn

Spec == Init /\ [][Next]_vars

\* the steps of one train_batch call
TrainBatchStep ==
    \/ TbPrepare
    \/ WarmRollout
    \/ WarmExit
    \/ SteadyRollout
    \/ SteadyExit
    \/ TbZeroGrad
    \/ TbSample
    \/ TbForwardBackward
    \/ TbUpdate
    \/ TbClip
    \/ TbOptimizerStep
    \/ TbWrite

\* train_batch is one thread of straight-line code and loops: while a step
\* of it can be taken, it is taken
SpecLive == Spec /\ WF_vars(TrainBatchStep)

\* the reinforcer of any create call, driven the same way
SpecCreate == InitCreate /\ [][Next]_vars

\* ------------------------------------------------------------- failures
\* the calls of train_batch that can raise, each with the position it is made at
RaisingCalls == {"rollout_raised", "sample_raised", "backward_raised", "step_raised"}

\* a train_batch that catches the exception and makes the call again
OnException_Retry(at) == at

\* lines 100-180: no try statement encloses any call of train_batch, so an
\* exception raised at any position leaves the function
OnException(at) == "tb_raised"

\* one call of train_batch raises: nothing of the call's effect is kept
Raises(at, call) ==
    /\ pc = at
    /\ pc' = OnException(at)
    /\ trace' = Append(trace, call)
    /\ UNCHANGED <<cycleVars, storeVars, caller, settings, modelVars, buffer_size, env_steps, epoch, batch_info,
                   localVars, n_batches, initialized, batches_since_sync, etrace,
                   update_args>>

\* lines 117 and 125: env_roller.rollout raises, in either loop
RolloutRaises ==
    \/ WarmLoopContinues(buffer_size) /\ Raises("warm", "rollout_raised")
    \/ SteadyLoopContinues(i, settings) /\ Raises("steady", "rollout_raised")

\* line 136: env_roller.sample raises
SampleRaises == Raises("sample", "sample_raised")

\* lines 144-165: the forward or the backward pass raises
ForwardBackwardRaises == Raises("forward", "backward_raised")

\* line 177: optimizer.step raises
OptimizerStepRaises == Raises("step", "step_raised")

\* the exception leaves train_batch: its locals are gone, and it arrives at
\* line 87 of train_epoch or at the driver
TbRaises ==
    /\ pc = "tb_raised"
    /\ pc' = IF caller = "epoch" THEN "epoch_raised" ELSE "failed"
    /\ frames' = 0
    /\ episode_information' = <<>>
    /\ i' = 0
    /\ batch_sample' = NoSample
    /\ expected_q' = <<>>
    /\ original_losses' = <<>>
    /\ etrace' = IF caller = "epoch"
                 THEN Append(etrace, Event("raised", epoch.batch_idx, 0))
                 ELSE etrace
    /\ UNCHANGED <<cycleVars, storeVars, caller, settings, modelVars, buffer_size, env_steps, epoch, batch_info,
                   n_batches, initialized, batches_since_sync, trace, update_args>>

\* lines 77-98: no try statement in train_epoch either; the exception arrives
\* at the driver
EpochRaises ==
    /\ pc = "epoch_raised"
    /\ pc' = "failed"
    /\ caller' = "driver"
    /\ UNCHANGED <<cycleVars, storeVars, settings, modelVars, buffer_size, env_steps, epoch, batch_info, localVars,
                   n_batches, initialized, ghostVars>>

NextFail ==
    \/ Next
    \/ RolloutRaises
    \/ SampleRaises
    \/ ForwardBackwardRaises
    \/ OptimizerStepRaises
    \/ TbRaises
    \/ EpochRaises

\* the reinforcer with collaborators that can raise
SpecFail == Init /\ [][NextFail]_vars

\* ================================================= ClassicStorage (classic.py)
MaxEpochs == 2
MaxSessions == 2
MaxCleanCalls == 1

\* '{:08}': the minimum width of the epoch index in a file name
FilenameWidth == 8

DigitChars == <<"0", "1", "2", "3", "4", "5", "6", "7", "8", "9">>

RECURSIVE DigitsOf(_)
\* str(n): the decimal digits of n, most significant first
DigitsOf(n) == IF n < 10 THEN <<DigitChars[n + 1]>>
               ELSE Append(DigitsOf(n \div 10), DigitChars[(n % 10) + 1])

RECURSIVE ZeroPad(_, _)
\* zeros on the left up to width w
ZeroPad(digits, w) == IF Len(digits) >= w THEN digits ELSE ZeroPad(<<"0">> \o digits, w)

\* '{:08}'.format(epoch_idx)
Format08(epoch_idx) == ZeroPad(DigitsOf(epoch_idx), FilenameWidth)

\* lines 107-109: 'checkpoint_{:08}.data'. A file name is the sequence of its
\* pieces: the literal parts of the format and one piece per digit.
checkpoint_filename(epoch_idx) == <<"checkpoint_">> \o Format08(epoch_idx) \o <<".data">>

\* lines 111-113: 'checkpoint_best_{:08}.data'
checkpoint_best_filename(epoch_idx) ==
    <<"checkpoint_", "best_">> \o Format08(epoch_idx) \o <<".data">>

\* lines 115-117: 'checkpoint_hidden_{:08}.data'
checkpoint_hidden_filename(epoch_idx) ==
    <<"checkpoint_", "hidden_">> \o Format08(epoch_idx) \o <<".data">>

IsDigit(c) == \E d \in DOMAIN DigitChars : DigitChars[d] = c

RECURSIVE DigitRun(_, _)
\* \d+ is greedy: the end of the run of digits that starts at position k
DigitRun(x, k) == IF k <= Len(x) /\ IsDigit(x[k]) THEN DigitRun(x, k + 1) ELSE k

RECURSIVE ToInt(_)
\* int(match[1])
ToInt(digits) ==
    IF digits = <<>> THEN 0
    ELSE 10 * ToInt(SubSeq(digits, 1, Len(digits) - 1))
         + (CHOOSE d \in 0..9 : DigitChars[d + 1] = digits[Len(digits)])

\* line 127: re.match('checkpoint_(\\d+)\\.data', x), anchored at the start of
\* the name only; None, or the one group of the match
Match(x) ==
    LET end == DigitRun(x, 2)
    IN  IF Len(x) >= 1 /\ x[1] = "checkpoint_" /\ end > 2 /\ end <= Len(x)
           /\ x[end] = ".data"
        THEN <<ToInt(SubSeq(x, 2, end - 1))>>
        ELSE None

RECURSIVE MaxIdx(_, _)
\* lines 126-132: the loop over os.listdir, in any order
MaxIdx(names, epoch_number) ==
    IF names = {} THEN epoch_number
    ELSE LET x == CHOOSE n \in names : TRUE
             match == Match(x)
         IN  MaxIdx(names \ {x},
                    IF match # None /\ match[1] > epoch_number THEN match[1]
                    ELSE epoch_number)

\* lines 121-134: _persisted_last_epoch over the directory fs
PersistedLastEpoch(fs) == MaxIdx(DOMAIN fs, 0)

\* torch.save(content, name)
Save(fs, name, content) ==
    [n \in DOMAIN fs \cup {name} |-> IF n = name THEN content ELSE fs[n]]

\* os.remove(name), of a file that exists
Remove(fs, name) == [n \in DOMAIN fs \ {name} |-> fs[n]]

\* an event of slog
Did(op, idx) == [op |-> op, idx |-> idx]

\* lines 71-79: the hidden state of a checkpoint: the optimizer's state after
\* this epoch and what the checkpoint strategy writes into it
HiddenState(global_epoch_idx, best_checkpoint_idx) ==
    [optimizer |-> global_epoch_idx, best_checkpoint_idx |-> best_checkpoint_idx]

\* lines 30-46: resume_learning(model) on the directory fs: what it returns
\* and what it leaves in the model, the strategy and the restored state
ResumeLearningOutcome(fs, model, strat, rest) ==
    LET last_epoch == PersistedLastEpoch(fs)
    IN  IF last_epoch > 0
        THEN IF checkpoint_filename(last_epoch) \notin DOMAIN fs
             THEN \* line 36: torch.load raises FileNotFoundError
                  [result |-> <<0, None>>,
                   model |-> model, strategy |-> strat, restored |-> rest]
             ELSE IF checkpoint_hidden_filename(last_epoch) \notin DOMAIN fs
             THEN \* line 37 raises, after line 36 has loaded the model
                  [result |-> <<0, None>>,
                   model |-> fs[checkpoint_filename(last_epoch)],
                   strategy |-> strat, restored |-> rest]
             ELSE LET hidden_state == fs[checkpoint_hidden_filename(last_epoch)]
                  IN  [result |-> <<last_epoch, hidden_state>>,
                       model |-> fs[checkpoint_filename(last_epoch)],
                       strategy |-> hidden_state.best_checkpoint_idx,
                       restored |-> <<hidden_state>>]
        ELSE [result |-> <<last_epoch, None>>,
              model |-> model, strategy |-> strat, restored |-> rest]

\* the driver's first call in a process: resume_learning(model)
ResumeLearning ==
    /\ spc = "start"
    /\ LET o == ResumeLearningOutcome(files, train_params, strategy, restored)
       IN  /\ train_params' = o.model
           /\ strategy' = o.strategy
           /\ restored' = o.restored
           /\ result' = o.result
           /\ driver_epoch' = o.result[1]
    /\ params_before' = <<train_params>>
    /\ spc' = "resumed"
    /\ UNCHANGED <<cycleVars, dqnVars, files, cleaned, scall, slog, sessions>>

\* a clean that never sets the flag
clean_NoFlag(flag, log, global_epoch_idx) ==
    [cleaned |-> flag, slog |-> Append(log, Did("backend.clean", global_epoch_idx))]

\* lines 52-58: clean(global_epoch_idx): the flag and the backend's calls after it
clean(flag, log, global_epoch_idx) ==
    IF flag
    THEN [cleaned |-> flag, slog |-> log]
    ELSE [cleaned |-> TRUE, slog |-> Append(log, Did("backend.clean", global_epoch_idx))]

\* the driver calls storage.clean(global_epoch_idx)
CleanCall ==
    /\ spc \in {"resumed", "idle"}
    /\ Cardinality({k \in DOMAIN slog : slog[k].op = "clean"}) < MaxCleanCalls
    /\ \E global_epoch_idx \in 1..MaxEpochs :
          LET r == clean(cleaned, Append(slog, Did("clean", global_epoch_idx)),
                         global_epoch_idx)
          IN  /\ cleaned' = r.cleaned
              /\ slog' = r.slog
    /\ UNCHANGED <<cycleVars, dqnVars, train_params, spc, files, strategy, restored, scall,
                   driver_epoch, result, params_before, sessions>>

\* the driver has trained the next epoch, which left the model with that
\* epoch's weights, and calls checkpoint(epoch_info, model)
CheckpointCall ==
    /\ spc \in {"resumed", "idle"}
    /\ driver_epoch < MaxEpochs
    /\ train_params' \in InitWeights
    /\ scall' = [global_epoch_idx |-> driver_epoch + 1, hidden_state |-> None]
    /\ slog' = Append(slog, Did("checkpoint", driver_epoch + 1))
    /\ spc' = "cp_clean"
    /\ UNCHANGED <<cycleVars, dqnVars, files, cleaned, strategy, restored, driver_epoch, result,
                   params_before, sessions>>

\* line 64: self.clean(epoch_info.global_epoch_idx)
CpClean ==
    /\ spc = "cp_clean"
    /\ LET r == clean(cleaned, slog, scall.global_epoch_idx)
       IN  /\ cleaned' = r.cleaned
           /\ slog' = r.slog
    /\ spc' = "cp_save_model"
    /\ UNCHANGED <<cycleVars, dqnVars, train_params, files, strategy, restored, scall, driver_epoch,
                   result, params_before, sessions>>

\* lines 66-69: torch.save(model.state_dict(), checkpoint_filename)
CpSaveModel ==
    /\ spc = "cp_save_model"
    /\ files' = Save(files, checkpoint_filename(scall.global_epoch_idx), train_params)
    /\ slog' = Append(slog, Did("write", scall.global_epoch_idx))
    /\ spc' = "cp_save_hidden"
    /\ UNCHANGED <<cycleVars, dqnVars, train_params, cleaned, strategy, restored, scall, driver_epoch,
                   result, params_before, sessions>>

\* lines 71-81: the hidden state is built and saved
CpSaveHidden ==
    /\ spc = "cp_save_hidden"
    /\ LET hidden_state == HiddenState(scall.global_epoch_idx, strategy)
       IN  /\ files' = Save(files, checkpoint_hidden_filename(scall.global_epoch_idx),
                            hidden_state)
           /\ scall' = [scall EXCEPT !.hidden_state = <<hidden_state>>]
    /\ slog' = Append(slog, Did("write", scall.global_epoch_idx))
    /\ spc' = "cp_delete_previous"
    /\ UNCHANGED <<cycleVars, dqnVars, train_params, cleaned, strategy, restored, driver_epoch,
                   result, params_before, sessions>>

\* lines 83-87: the previous epoch's two files are removed if the strategy
\* says so; os.remove of a missing file raises
CpDeletePrevious ==
    /\ spc = "cp_delete_previous"
    /\ \E should_delete_previous_checkpoint \in BOOLEAN :
          LET prev_epoch_idx == scall.global_epoch_idx - 1
              model_file == checkpoint_filename(prev_epoch_idx)
              hidden_file == checkpoint_hidden_filename(prev_epoch_idx)
          IN  IF scall.global_epoch_idx > 1 /\ should_delete_previous_checkpoint
              THEN IF model_file \notin DOMAIN files
                   THEN files' = files /\ spc' = "raised"
                   ELSE IF hidden_file \notin DOMAIN files
                   THEN files' = Remove(files, model_file) /\ spc' = "raised"
                   ELSE /\ files' = Remove(Remove(files, model_file), hidden_file)
                        /\ spc' = "cp_store_best"
              ELSE files' = files /\ spc' = "cp_store_best"
    /\ UNCHANGED <<cycleVars, dqnVars, train_params, cleaned, strategy, restored, scall, slog,
                   driver_epoch, result, params_before, sessions>>

\* lines 89-97: the best checkpoint is replaced if the strategy says so
CpStoreBest ==
    /\ spc = "cp_store_best"
    /\ \E should_store_best_checkpoint \in BOOLEAN :
          IF should_store_best_checkpoint
          THEN LET best_checkpoint_idx == strategy
                   best_file == checkpoint_best_filename(scall.global_epoch_idx)
               IN  IF best_checkpoint_idx # None
                      /\ checkpoint_best_filename(best_checkpoint_idx[1]) \notin DOMAIN files
                   THEN /\ spc' = "raised"
                        /\ UNCHANGED <<files, strategy, slog>>
                   ELSE /\ files' = Save(IF best_checkpoint_idx # None
                                         THEN Remove(files, checkpoint_best_filename(
                                                                best_checkpoint_idx[1]))
                                         ELSE files,
                                         best_file, train_params)
                        /\ strategy' = <<scall.global_epoch_idx>>
                        /\ slog' = Append(slog, Did("write", scall.global_epoch_idx))
                        /\ spc' = "cp_backend_store"
          ELSE /\ spc' = "cp_backend_store"
               /\ UNCHANGED <<files, strategy, slog>>
    /\ UNCHANGED <<cycleVars, dqnVars, train_params, cleaned, restored, scall, driver_epoch, result,
                   params_before, sessions>>

\* line 99: backend.store(epoch_info.result); checkpoint returns
CpBackendStore ==
    /\ spc = "cp_backend_store"
    /\ spc' = "idle"
    /\ driver_epoch' = scall.global_epoch_idx
    /\ UNCHANGED <<cycleVars, dqnVars, train_params, files, cleaned, strategy, restored, scall, slog,
                   result, params_before, sessions>>

\* the process ends, at any point (it finishes, it is killed, or an
\* exception has reached the driver), and a new process is started on the
\* same checkpoint directory with a new model and a new ClassicStorage
NewProcess ==
    /\ spc # "start"
    /\ sessions < MaxSessions
    /\ sessions' = sessions + 1
    /\ train_params' \in InitWeights
    /\ spc' = "start"
    /\ cleaned' = FALSE
    /\ strategy' = None
    /\ restored' = None
    /\ scall' = <<>>
    /\ slog' = <<>>
    /\ driver_epoch' = 0
    /\ result' = None
    /\ params_before' = None
    /\ UNCHANGED <<cycleVars, dqnVars, files>>

NextStorage ==
    \/ ResumeLearning
    \/ CleanCall
    \/ CheckpointCall
    \/ CpClean
    \/ CpSaveModel
    \/ CpSaveHidden
    \/ CpDeletePrevious
    \/ CpStoreBest
    \/ CpBackendStore
    \/ NewProcess

\* the first process on an empty checkpoint directory
InitStorage ==
    /\ Instantiate
    /\ settings = CHOOSE s \in DqnReinforcerSettings : TRUE
    /\ target_params = train_params

SpecStorage == InitStorage /\ [][NextStorage]_vars

\* ======================================================= cycle.py (CyclePhase)
MaxCycles == 2
MaxCycleLen == 2
MaxCycleMult == 2
MaxInitIter == 2
MaxBatchesPerEpoch == 2

RECURSIVE Power(_, _)
\* b ** e
Power(b, e) == IF e = 0 THEN 1 ELSE b * Power(b, e - 1)

\* lines 24-27 and 98-101: self.epochs, the same expression in CycleCallback
\* and in CyclePhase (// of non-negative integers)
Epochs(cycles, cycle_len, cycle_mult) ==
    IF cycle_mult > 1
    THEN (cycle_len * (Power(cycle_mult, cycles) - 1)) \div (cycle_mult - 1)
    ELSE cycle_mult * cycles

\* what create (lines 143-155) is called with: integer cycles, cycle_len,
\* cycle_mult >= 1, an init_iter >= 0 and three learning rates
CycleArguments ==
    [max_lr : {3}, min_lr : {1}, init_lr : {0},
     cycles : 1..MaxCycles,
     cycle_len : 1..MaxCycleLen,
     cycle_mult : 1..MaxCycleMult,
     init_iter : 0..MaxInitIter]

\* np.zeros(n, dtype=int)
Zeros(n) == [k \in 1..n |-> 0]

\* interp.interpolate_single(max_lr, min_lr, numerator / denominator), linear:
\* the exact value as a fraction <<p, q>>
InterpolateSingle(max_lr, min_lr, numerator, denominator) ==
    <<max_lr * denominator - (max_lr - min_lr) * numerator, denominator>>

\* lines 89-114 and 143-155: create builds the CyclePhase
CreateCyclePhase ==
    /\ cpc = "start"
    /\ \E a \in CycleArguments :
          phase' = [max_lr |-> a.max_lr, min_lr |-> a.min_lr, init_lr |-> a.init_lr,
                    cycles |-> a.cycles, cycle_len |-> a.cycle_len,
                    cycle_mult |-> a.cycle_mult, init_iter |-> a.init_iter,
                    epochs |-> Epochs(a.cycles, a.cycle_len, a.cycle_mult)]
    /\ cpc' = "set_up"
    /\ UNCHANGED <<dqnVars, train_params, storeVars, callback, init_locals, cbatch, lr>>

\* lines 127-132, 13-31 and 37-42: set_up_phase builds the CycleCallback,
\* whose __init__ enters _init_cycle_dict
SetUpPhase ==
    /\ cpc = "set_up"
    /\ LET epochs == Epochs(phase.cycles, phase.cycle_len, phase.cycle_mult)
       IN  /\ callback' = [max_lr |-> phase.max_lr, min_lr |-> phase.min_lr,
                           init_lr |-> phase.init_lr, cycles |-> phase.cycles,
                           cycle_len |-> phase.cycle_len, cycle_mult |-> phase.cycle_mult,
                           init_iter |-> phase.init_iter, epochs |-> epochs,
                           cycle_dict |-> None, cycle_lengths |-> None,
                           cycle_starts |-> None]
           /\ init_locals' = [dict_arr |-> Zeros(epochs), length_arr |-> Zeros(epochs),
                              start_arr |-> Zeros(epochs), c_len |-> phase.cycle_len,
                              idx |-> 0, i |-> 0, j |-> 0, current_start |-> 0]
    /\ cpc' = "for_i"
    /\ UNCHANGED <<dqnVars, train_params, storeVars, phase, cbatch, lr>>

\* lines 44-45: the next cycle of the outer loop
ForCycle ==
    /\ cpc = "for_i"
    /\ init_locals.i < callback.cycles
    /\ init_locals' = [init_locals EXCEPT !.current_start = init_locals.idx, !.j = 0]
    /\ cpc' = "for_j"
    /\ UNCHANGED <<dqnVars, train_params, storeVars, phase, callback, cbatch, lr>>

\* lines 46-50: one epoch slot of the cycle is written (array index idx is
\* position idx + 1 here)
ForEpochWrite ==
    /\ cpc = "for_j"
    /\ init_locals.j < init_locals.c_len
    /\ init_locals.idx < callback.epochs
    /\ init_locals' = [init_locals EXCEPT
                          !.dict_arr[init_locals.idx + 1] = init_locals.i,
                          !.length_arr[init_locals.idx + 1] = init_locals.c_len,
                          !.start_arr[init_locals.idx + 1] = init_locals.current_start,
                          !.idx = @ + 1,
                          !.j = @ + 1]
    /\ UNCHANGED <<dqnVars, train_params, storeVars, cpc, phase, callback, cbatch, lr>>

\* line 47: dict_arr[idx] with idx past the end of the array raises
\* IndexError, which leaves __init__ and set_up_phase
ForEpochIndexError ==
    /\ cpc = "for_j"
    /\ init_locals.j < init_locals.c_len
    /\ init_locals.idx >= callback.epochs
    /\ cpc' = "raised"
    /\ UNCHANGED <<dqnVars, train_params, storeVars, phase, callback, init_locals, cbatch, lr>>

\* line 52: the inner loop is over; the next cycle is cycle_mult times as long
ForCycleEnd ==
    /\ cpc = "for_j"
    /\ init_locals.j >= init_locals.c_len
    /\ init_locals' = [init_locals EXCEPT !.c_len = @ * callback.cycle_mult, !.i = @ + 1]
    /\ cpc' = "for_i"
    /\ UNCHANGED <<dqnVars, train_params, storeVars, phase, callback, cbatch, lr>>

\* lines 54 and 33: _init_cycle_dict returns the three arrays
InitCycleDictReturn ==
    /\ cpc = "for_i"
    /\ init_locals.i >= callback.cycles
    /\ callback' = [callback EXCEPT !.cycle_dict = init_locals.dict_arr,
                                    !.cycle_lengths = init_locals.length_arr,
                                    !.cycle_starts = init_locals.start_arr]
    /\ init_locals' = None
    /\ cpc' = "built"
    /\ UNCHANGED <<dqnVars, train_params, storeVars, phase, cbatch, lr>>

\* a position that counts from the start of the phase, not of the cycle
Numerator_FromPhaseStart(local_epoch_number, cycle_start, batches_per_epoch, batch_number) ==
    (local_epoch_number - 1) * batches_per_epoch + batch_number

\* line 61
Numerator(local_epoch_number, cycle_start, batches_per_epoch, batch_number) ==
    (local_epoch_number - cycle_start - 1) * batches_per_epoch + batch_number

\* the BatchInfo of the batch the learner runs after batch b (None: the first
\* batch of the phase, of an epoch of n batches)
NextBatch(b, n) ==
    IF b = None
    THEN [local_epoch_number |-> 1, batch_number |-> 0, batches_per_epoch |-> n]
    ELSE IF b.batch_number + 1 < b.batches_per_epoch
    THEN [local_epoch_number |-> b.local_epoch_number, batch_number |-> b.batch_number + 1,
          batches_per_epoch |-> b.batches_per_epoch]
    ELSE [local_epoch_number |-> b.local_epoch_number + 1, batch_number |-> 0,
          batches_per_epoch |-> b.batches_per_epoch]

\* lines 56-83: on_batch_begin(batch_info) of the next batch of the phase's
\* number_of_epochs epochs, and set_lr
CycleOnBatchBegin ==
    /\ cpc = "built"
    /\ \E n \in 1..MaxBatchesPerEpoch :
          LET batch_info_ == NextBatch(IF cbatch = None THEN None
                                      ELSE [k \in {"local_epoch_number", "batch_number",
                                                   "batches_per_epoch"} |-> cbatch[k]], n)
              e == batch_info_.local_epoch_number
          IN  /\ e <= phase.epochs
              /\ IF e > Len(callback.cycle_lengths)
                 THEN \* line 58: IndexError
                      cpc' = "raised" /\ UNCHANGED <<cbatch, lr>>
                 ELSE LET cycle_length == callback.cycle_lengths[e]
                          cycle_start == callback.cycle_starts[e]
                          numerator == Numerator(e, cycle_start,
                                                 batch_info_.batches_per_epoch,
                                                 batch_info_.batch_number)
                          denominator == cycle_length * batch_info_.batches_per_epoch
                      IN  /\ lr' = IF cycle_start = 0 /\ numerator < callback.init_iter
                                   THEN <<callback.init_lr, 1>>
                                   ELSE InterpolateSingle(callback.max_lr, callback.min_lr,
                                                          numerator, denominator)
                          /\ cbatch' = [local_epoch_number |-> e,
                                        batch_number |-> batch_info_.batch_number,
                                        batches_per_epoch |-> batch_info_.batches_per_epoch,
                                        numerator |-> numerator,
                                        denominator |-> denominator]
                          /\ cpc' = cpc
    /\ UNCHANGED <<dqnVars, train_params, storeVars, phase, callback, init_locals>>

NextCycle ==
    \/ CreateCyclePhase
    \/ SetUpPhase
    \/ ForCycle
    \/ ForEpochWrite
    \/ ForEpochIndexError
    \/ ForCycleEnd
    \/ InitCycleDictReturn
    \/ CycleOnBatchBegin

\* no CyclePhase has been created yet
InitCycle == InitStorage

\* a phase created, set up and run
SpecCycle == InitCycle /\ [][NextCycle]_vars

\* ================================================================ claims
\* the positions of train_batch after its rollout phase
AfterRollouts == {"zero_grad", "sample", "forward", "update", "clip", "step",
                  "write", "tb_return"}

\* how often call e occurs in the sequence t
Count(t, e) == Cardinality({k \in DOMAIN t : t[k] = e})

C2_SteadyRolloutCount ==
    (Len(trace) > 0 /\ trace[1] = "ready") =>
        /\ Count(trace, "rollout") <= settings.train_frequency
        /\ pc \in AfterRollouts =>
              /\ Count(trace, "rollout") = settings.train_frequency
              /\ frames = settings.train_frequency
        /\ pc = "tb_return" => batch_info["frames"] = settings.train_frequency

\* a steady-state batch with the largest train_frequency has returned
C2_Witness ==
    /\ pc = "tb_return"
    /\ trace[1] = "ready"
    /\ settings.train_frequency = MaxTrainFrequency
    /\ batch_info["frames"] = MaxTrainFrequency
    /\ Len(episode_information) > 0

\* C3: snapshot invariant. Once initialize_training() has run, the target
\* model's parameters are a value the train model's parameters have held
\* (at or after the last reset of the train model's weights).
C3_TargetIsPastSnapshot == initialized => target_params \in history

\* the train model has moved away from the snapshot the target holds
C3_Witness ==
    /\ initialized
    /\ pc = "tb_return"
    /\ target_params # train_params
    /\ target_params \in history

\* C4: periodic target synchronization. Among any target_update_frequency
\* consecutive train_batch calls one copies the train model's parameters into
\* the target model: no target_update_frequency batches complete in a row
\* without a copy.
C4_PeriodicTargetSync ==
    initialized => batches_since_sync < settings.target_update_frequency

\* initialize_training() has just returned (no batch has stepped since)
JustInitialized ==
    /\ initialized
    /\ batches_since_sync = 0
    /\ Count(trace, "step") = 0

\* the first train_batch after initialize_training() is returning
AfterOneBatch ==
    /\ initialized
    /\ batches_since_sync = 1
    /\ pc = "tb_return"

\* C5 as stated: after initialize_training() both models hold the freshly
\* reset weights; after one subsequent train_batch the two differ, the train
\* model having moved and the target model not.
C5_SyncThenDiverge ==
    /\ JustInitialized =>
          /\ train_params = reset_weights
          /\ target_params = reset_weights
    /\ AfterOneBatch =>
          /\ target_params = reset_weights
          /\ train_params # target_params

\* C5 as amended: after initialize_training() both models hold the freshly
\* reset weights; after one subsequent train_batch the target model still
\* holds them, and the train model holds what one optimizer step makes of
\* them under the batch's gradient (which is the reset weights again when
\* that gradient is zero).
C5_SyncThenOneStep ==
    /\ JustInitialized =>
          /\ train_params = reset_weights
          /\ target_params = reset_weights
    /\ AfterOneBatch =>
          /\ target_params = reset_weights
          /\ train_params = [a \in Actions |-> reset_weights[a] - Sgn(grads.g[a])]

\* one batch after initialize_training() the train model has moved and the
\* target model has not
C5_Witness ==
    /\ AfterOneBatch
    /\ target_params = reset_weights
    /\ train_params # target_params

\* the calls of the current train_epoch before position k
Before(k) == {etrace[j] : j \in 1..(k - 1)}

Callbacks == 1..MaxCallbacks

\* the positions of train_epoch inside train_batch
InTrainBatch == {"tb_start", "warm", "steady"} \cup AfterRollouts

\* C6: hook ordering in train_epoch. Every on_epoch_begin precedes the first
\* on_batch_begin; every on_batch_begin of a batch precedes that batch's
\* train_batch; on_batch_end comes only after train_batch has returned with
\* the scratch fields written; on_epoch_end comes only after the epoch's
\* result has been frozen.
C6_HookOrdering ==
    /\ \A k \in DOMAIN etrace :
          /\ etrace[k].e = "on_batch_begin" =>
                \A c \in Callbacks : Event("on_epoch_begin", -1, c) \in Before(k)
          /\ etrace[k].e = "train_batch" =>
                \A c \in Callbacks : Event("on_batch_begin", etrace[k].b, c) \in Before(k)
          /\ etrace[k].e = "on_batch_end" =>
                Event("train_batch_return", etrace[k].b, 0) \in Before(k)
          /\ etrace[k].e = "on_epoch_end" =>
                /\ Event("freeze_results", -1, 0) \in Before(k)
                /\ Event("freeze_epoch_result", -1, 0) \in Before(k)
    /\ (caller = "epoch" /\ pc \in InTrainBatch) =>
          \A c \in Callbacks : \E k \in DOMAIN etrace :
              etrace[k] = Event("on_batch_begin", epoch.batch_idx, c)
    /\ pc = "batch_end" =>
          {"epsilon_value", "frames", "episode_infos"} \subseteq DOMAIN batch_info
    /\ pc = "epoch_end" => epoch.frozen = 2

\* an epoch of MaxBatches batches has called its last on_epoch_end
C6_Witness ==
    /\ pc = "epoch_return"
    /\ epoch.batches_per_epoch = MaxBatches
    /\ epoch.batch_idx = MaxBatches
    /\ \A c \in Callbacks : \E k \in DOMAIN etrace : etrace[k] = Event("on_epoch_end", -1, c)
    /\ \A c \in Callbacks : \E k \in DOMAIN etrace :
          etrace[k] = Event("on_batch_end", MaxBatches - 1, c)

\* the place of each call in a batch
Rank(e) == CASE e = "ready" -> 0
             [] e = "not_ready" -> 0
             [] e = "rollout" -> 1
             [] e = "zero_grad" -> 2
             [] e = "sample" -> 3
             [] e = "backward" -> 4
             [] e = "update" -> 5
             [] e = "clip" -> 6
             [] e = "step" -> 7

\* C7: per-batch phase order and exactly-once. In a train_batch the calls
\* come in the order rollouts, zero_grad, sample, backward, update, clip (when
\* configured), step; none but rollout is made twice, no rollout follows
\* zero_grad, sample or step; a train_batch that returns has made each of
\* zero_grad, sample, backward, update and step exactly once, step last.
C7_PhaseOrder ==
    /\ \A j, k \in DOMAIN trace :
          j < k => /\ Rank(trace[j]) <= Rank(trace[k])
                   /\ Rank(trace[k]) # 1 => Rank(trace[j]) < Rank(trace[k])
    /\ pc \in {"write", "tb_return"} =>
          /\ \A e \in {"zero_grad", "sample", "backward", "update", "step"} :
                Count(trace, e) = 1
          /\ Count(trace, "clip") = IF settings.max_grad_norm # None THEN 1 ELSE 0
          /\ trace[Len(trace)] = "step"
          /\ Count(trace, "rollout") >= 1

\* a batch with gradient clipping has made all its calls
C7_Witness ==
    /\ pc = "tb_return"
    /\ Count(trace, "rollout") = MaxInitialSize
    /\ Count(trace, "clip") = 1
    /\ trace[Len(trace)] = "step"

\* the largest entry of a row of per-action values
IsMax(v, row) == /\ \E a \in DOMAIN row : row[a] = v
                 /\ \A a \in DOMAIN row : row[a] <= v

\* C8: terminal transitions get no bootstrap. Once the targets are computed,
\* every sampled transition with done = 1 has expected_q equal to its reward,
\* and every other one has its reward plus discount_factor times a
\* next-state value of the target network (all in tenths).
C8_NoBootstrapOnTerminal ==
    pc = "update" =>
        \A k \in DOMAIN batch_sample :
            /\ batch_sample[k].done = 1 =>
                  expected_q[k] = Scale * batch_sample[k].reward
            /\ batch_sample[k].done = 0 =>
                  \E a \in Actions :
                      expected_q[k] = Scale * batch_sample[k].reward
                                      + settings.discount_factor * target_params[a]

\* a sample holding a terminal and a non-terminal transition whose targets
\* differ although their rewards agree: the target network's value is not zero
C8_Witness ==
    /\ pc = "update"
    /\ \E j, k \in DOMAIN batch_sample :
          /\ batch_sample[j].done = 1
          /\ batch_sample[k].done = 0
          /\ batch_sample[j].reward = batch_sample[k].reward
          /\ expected_q[j] = Scale * batch_sample[j].reward
          /\ expected_q[k] # expected_q[j]

\* C9: target value selection. With double_dqn the bootstrap value of every
\* non-terminal sample is the target network's value at an action that
\* maximises the train network's values; without it, it is the largest of
\* the target network's values.
C9_TargetValueSelection ==
    pc = "update" =>
        \A k \in DOMAIN batch_sample :
            batch_sample[k].done = 0 =>
                IF settings.double_dqn
                THEN \E a \in Actions :
                        /\ IsMax(train_params[a], train_params)
                        /\ expected_q[k] = Scale * batch_sample[k].reward
                              + settings.discount_factor * target_params[a]
                ELSE \E v \in {target_params[a] : a \in Actions} :
                        /\ IsMax(v, target_params)
                        /\ expected_q[k] = Scale * batch_sample[k].reward
                              + settings.discount_factor * v

\* double DQN where the two networks disagree: the value taken is not the
\* target network's maximum
C9_Witness ==
    /\ pc = "update"
    /\ settings.double_dqn
    /\ \E k \in DOMAIN batch_sample, a \in Actions :
          /\ batch_sample[k].done = 0
          /\ IsMax(train_params[a], train_params)
          /\ ~IsMax(target_params[a], target_params)
          /\ expected_q[k] = Scale * batch_sample[k].reward
                + settings.discount_factor * target_params[a]

\* C10: priority feedback correspondence. env_roller.update is called once
\* per train_batch, with the sample env_roller.sample returned in that batch
\* and with the loss of the k-th transition, not multiplied by its weight, as
\* the k-th entry of the loss vector.
C10_PriorityFeedback ==
    /\ [][pc = "update" /\ pc' # "update" =>
            /\ update_args'.sample = batch_sample
            /\ DOMAIN update_args'.losses = DOMAIN batch_sample
            /\ \A k \in DOMAIN batch_sample :
                  update_args'.losses[k] =
                      SmoothL1(train_params[batch_sample[k].action], expected_q[k])]_vars
    /\ [](Count(trace, "update") <= 1)
    /\ [](pc = "tb_return" => Count(trace, "update") = 1)

\* update has just been called with two transitions whose losses differ and
\* whose weights are not both 1
C10_Witness ==
    /\ pc \in {"clip", "step"}
    /\ update_args # <<>>
    /\ Len(update_args.sample) = 2
    /\ update_args.losses[1] # update_args.losses[2]
    /\ update_args.sample[1].weight # update_args.sample[2].weight
    /\ update_args.losses[2] # 0

\* the ranges section 3 of the specification documents for the settings
ValidSettings(s) ==
    /\ s.batch_size >= 1
    /\ s.train_frequency >= 1
    /\ s.target_update_frequency >= 1
    /\ s.discount_factor >= 0 /\ s.discount_factor < Scale
    /\ (s.max_grad_norm # None => s.max_grad_norm[1] > 0)

\* C11: configuration errors are rejected at construction, so no reinforcer
\* whose settings are outside the documented ranges ever enters train_batch.
C11_InvalidSettingsRejected == pc = "tb_start" => ValidSettings(settings)

\* the positions of an exception on its way to the driver
Propagating == {"tb_raised", "epoch_raised", "failed"}

\* C12: no retries, failures propagate. A call that raised is the last call
\* of its batch (it is not made again, and after a failed sample there is no
\* update and no optimizer step); the exception goes from train_batch through
\* train_epoch to the driver and stays there; after the failed batch the epoch
\* has no on_batch_end, no calculate, no freeze and no on_epoch_end.
C12_FailuresPropagate ==
    /\ [](\A k \in DOMAIN trace : trace[k] \in RaisingCalls => k = Len(trace))
    /\ []((trace # <<>> /\ trace[Len(trace)] \in RaisingCalls) <=> pc \in Propagating)
    /\ [](Count(trace, "sample_raised") = 1 =>
              Count(trace, "update") = 0 /\ Count(trace, "step") = 0)
    /\ [](\A k \in DOMAIN etrace :
              etrace[k].e = "raised" =>
                 /\ k = Len(etrace)
                 /\ pc \in {"epoch_raised", "failed"}
                 /\ epoch.calculated = etrace[k].b
                 /\ epoch.frozen = 0)
    /\ [][pc = "tb_raised" => pc' = (IF caller = "epoch" THEN "epoch_raised" ELSE "failed")]_vars
    /\ [][pc = "epoch_raised" => pc' = "failed"]_vars
    /\ [][pc # "failed"]_vars

\* env_roller.sample raised in the second batch of an epoch, and the
\* exception has reached the driver
C12_Witness ==
    /\ pc = "failed"
    /\ trace[Len(trace)] = "sample_raised"
    /\ etrace # <<>>
    /\ etrace[Len(etrace)] = Event("raised", 1, 0)

RECURSIVE RolloutReturns(_, _)
\* what n consecutive env_roller.rollout calls return, the first of them made
\* after `steps` steps of the environment
RolloutReturns(steps, n) ==
    IF n = 0 THEN <<>>
    ELSE <<RolloutResult(steps)>> \o RolloutReturns(steps + 1, n - 1)

\* the values of a sequence that are not None, in the sequence's order
NonNone(seq) == SelectSeq(seq, LAMBDA x : x # None)

\* C13: batch scratch fields. From before the first rollout on,
\* batch_info['epsilon_value'] is epsilon_schedule.value(progress); when
\* train_batch returns, batch_info['frames'] is the number of rollout calls of
\* the batch and batch_info['episode_infos'] holds the non-None values those
\* rollouts returned, in rollout order, none dropped and none duplicated.
C13_ScratchFields ==
    /\ pc \in InTrainBatch \ {"tb_start"} =>
          /\ "epsilon_value" \in DOMAIN batch_info
          /\ batch_info["epsilon_value"] = ScheduleValue(batch_info["progress"])
    /\ pc = "tb_return" =>
          LET n == Count(trace, "rollout")
          IN  /\ batch_info["frames"] = n
              /\ batch_info["episode_infos"] = NonNone(RolloutReturns(env_steps - n, n))

\* a warm-up batch returns with two episode records and two rollouts that
\* returned None
C13_Witness ==
    /\ pc = "tb_return"
    /\ trace[1] = "not_ready"
    /\ batch_info["frames"] = 4
    /\ batch_info["episode_infos"] = <<<<1>>, <<2>>>>

\* the elements of a sequence
Range(seq) == {seq[k] : k \in DOMAIN seq}

\* C14: gradient-norm observability follows the configuration. metrics()
\* declares 'grad_norm' exactly when max_grad_norm is not None; a batch clips
\* (once, before the optimizer step) and writes batch_info['grad_norm']
\* exactly when max_grad_norm is not None; so a returning batch has written
\* the scratch field of every declared metric, and 'grad_norm' is never
\* written when it is not declared.
C14_GradNormObservability ==
    /\ "grad_norm" \in Range(metrics(settings)) <=> settings.max_grad_norm # None
    /\ "grad_norm" \in DOMAIN batch_info => "grad_norm" \in Range(metrics(settings))
    /\ Count(trace, "clip") > 0 => settings.max_grad_norm # None
    /\ \A k \in DOMAIN trace : trace[k] = "step" =>
          Count(SubSeq(trace, 1, k), "clip") = (IF settings.max_grad_norm # None THEN 1 ELSE 0)
    /\ pc \in {"step", "write", "tb_return"} =>
          ("grad_norm" \in DOMAIN batch_info <=> settings.max_grad_norm # None)
    /\ pc = "tb_return" =>
          \A k \in DOMAIN metrics(settings) :
              MetricField(metrics(settings)[k]) \in DOMAIN batch_info

\* a batch returns having clipped a gradient above the cap and written its norm
C14_Witness ==
    /\ pc = "tb_return"
    /\ settings.max_grad_norm # None
    /\ grads.clipped
    /\ batch_info["grad_norm"] > 0

C16_ParameterFrame ==
    /\ [][target_params' # target_params =>
              /\ pc = "idle" /\ pc' = "idle"
              /\ target_params' = reset_weights' /\ train_params' = reset_weights']_vars
    /\ [][train_params' # train_params =>
              \/ pc = "idle" /\ pc' = "idle" /\ train_params' = reset_weights'
              \/ pc = "step" /\ pc' = "write" /\ trace' = Append(trace, "step")]_vars
    /\ [](Count(trace, "step") <= 1)

\* the second batch's optimizer step has moved the train model away from a
\* target model that still holds the weights of initialize_training
C16_Witness ==
    /\ pc = "write"
    /\ n_batches = 2
    /\ train_params # target_params
    /\ target_params = reset_weights
    /\ Count(trace, "rollout") = settings.train_frequency

\* the accumulator's calls and the train_batch calls of a train_epoch
Accumulation == {"train_batch", "train_batch_return", "calculate", "freeze_results",
                 "freeze_epoch_result"}

RECURSIVE Batches(_)
\* n batches with the indices 0..n-1 in increasing order, each one a
\* train_batch call, its return, and one calculate
Batches(n) ==
    IF n = 0 THEN <<>>
    ELSE Batches(n - 1) \o <<Event("train_batch", n - 1, 0),
                              Event("train_batch_return", n - 1, 0),
                              Event("calculate", n - 1, 0)>>

\* what a train_epoch of n batches does to the accumulator, from first to last
Accumulated(n) ==
    Batches(n) \o <<Event("freeze_results", -1, 0), Event("freeze_epoch_result", -1, 0)>>

\* C17: epoch accumulation. At every moment of a train_epoch its train_batch
\* calls and its accumulator calls so far are the beginning of this sequence:
\* for each batch index 0..batches_per_epoch-1 in increasing order one
\* train_batch and, after its return, one calculate; then freeze_results once
\* and freeze_epoch_result once (and nothing after them, so no calculate
\* follows the freeze); when the epoch hooks run and when train_epoch returns
\* the sequence is complete, also when batches_per_epoch is 0.
C17_EpochAccumulation ==
    LET done == SelectSeq(etrace, LAMBDA ev : ev.e \in Accumulation)
        all == Accumulated(epoch.batches_per_epoch)
    IN  /\ Len(done) <= Len(all)
        /\ done = SubSeq(all, 1, Len(done))
        /\ pc \in {"epoch_end", "epoch_return"} => done = all

\* a train_epoch of two batches is about to return
C17_Witness ==
    /\ pc = "epoch_return"
    /\ epoch.batches_per_epoch = 2
    /\ epoch.calculated = 2
    /\ epoch.frozen = 2

\* the last persisted epoch of the directory lacks its model file or its
\* hidden-state file
IncompleteCheckpoint(fs) ==
    LET last_epoch == PersistedLastEpoch(fs)
    IN  /\ last_epoch > 0
        /\ \/ checkpoint_filename(last_epoch) \notin DOMAIN fs
           \/ checkpoint_hidden_filename(last_epoch) \notin DOMAIN fs

\* C18: resume_learning ignores an incomplete checkpoint. When the last
\* persisted epoch lacks its model file or its hidden-state file,
\* resume_learning returns (0, None) and leaves the model's parameters, the
\* storage's restored state and the checkpoint strategy's state as they were
\* before the call.
C18_IncompleteCheckpointIgnored ==
    (spc = "resumed" /\ IncompleteCheckpoint(files)) =>
        /\ result = <<0, None>>
        /\ train_params = params_before[1]
        /\ restored = None
        /\ strategy = None

\* C19: checkpoint/resume round trip. When checkpoint has returned for
\* global_epoch_idx n, after the calls 1..n of this process, the model file
\* and the hidden file of epoch n exist, _persisted_last_epoch returns n, and
\* resume_learning (into any model) returns (n, hidden_state) with the model
\* state and the hidden state that call saved.
C19_CheckpointResumeRoundTrip ==
    (spc = "idle" /\ scall # <<>> /\ result[1] = 0) =>
        LET n == scall.global_epoch_idx
        IN  /\ checkpoint_filename(n) \in DOMAIN files
            /\ checkpoint_hidden_filename(n) \in DOMAIN files
            /\ PersistedLastEpoch(files) = n
            /\ \A model \in InitWeights :
                  LET o == ResumeLearningOutcome(files, model, None, None)
                  IN  /\ o.result = <<n, scall.hidden_state[1]>>
                      /\ o.model = train_params
                      /\ o.restored = scall.hidden_state

\* the positions of slog with event op
Events(op) == {k \in DOMAIN slog : slog[k].op = op}

\* C20: cleaning happens once. Over the lifetime of a ClassicStorage,
\* backend.clean is called by the first clean or checkpoint call, with that
\* call's global epoch index and before any checkpoint file is written, and
\* by no later call.
C20_CleanOnce ==
    /\ \A k \in Events("backend.clean") :
          /\ k = 2
          /\ slog[1].op \in {"clean", "checkpoint"}
          /\ slog[1].idx = slog[k].idx
    /\ (slog # <<>> /\ spc # "cp_clean") => Events("backend.clean") = {2}
    /\ cleaned <=> Events("backend.clean") # {}

\* a clean call and two checkpoint calls have been made on one storage
C20_Witness ==
    /\ spc = "idle"
    /\ Cardinality(Events("clean")) = 1
    /\ Cardinality(Events("checkpoint")) = 2
    /\ Cardinality(Events("backend.clean")) = 1
    /\ Cardinality(Events("write")) >= 4


RECURSIVE CycleLengthsSum(_, _, _)
\* the sum of the lengths of the first n cycles, cycle k (0-based) being
\* cycle_len * cycle_mult^k epochs long
CycleLengthsSum(n, cycle_len, cycle_mult) ==
    IF n = 0 THEN 0
    ELSE CycleLengthsSum(n - 1, cycle_len, cycle_mult) + cycle_len * Power(cycle_mult, n - 1)

\* the cycle (0-based) of epoch slot k (1-based) by the same lengths
CycleOfSlot(k, cycle_len, cycle_mult) ==
    CHOOSE c \in 0..k :
        /\ CycleLengthsSum(c, cycle_len, cycle_mult) < k
        /\ k <= CycleLengthsSum(c + 1, cycle_len, cycle_mult)

\* C21: the number of epochs of CyclePhase and of CycleCallback is the sum of
\* the lengths of all cycles (cycle i being cycle_len * cycle_mult^i long), so
\* _init_cycle_dict never writes past the end of its arrays, writes every
\* slot it has reached once, and returns with every slot holding its cycle's
\* index, length and start
C21_CycleEpochCount ==
    /\ phase # None =>
          phase.epochs = CycleLengthsSum(phase.cycles, phase.cycle_len, phase.cycle_mult)
    /\ callback # None =>
          callback.epochs = CycleLengthsSum(callback.cycles, callback.cycle_len,
                                            callback.cycle_mult)
    /\ cpc # "raised"
    /\ init_locals # None =>
          /\ init_locals.idx <= callback.epochs
          /\ init_locals.idx = CycleLengthsSum(init_locals.i, callback.cycle_len,
                                               callback.cycle_mult)
                                 + (IF cpc = "for_i" THEN 0 ELSE init_locals.j)
          /\ init_locals.i >= callback.cycles => init_locals.idx = callback.epochs
    /\ cpc = "built" =>
          \A k \in 1..callback.epochs :
              LET c == CycleOfSlot(k, callback.cycle_len, callback.cycle_mult)
              IN  /\ callback.cycle_dict[k] = c
                  /\ callback.cycle_lengths[k] = callback.cycle_len * Power(callback.cycle_mult, c)
                  /\ callback.cycle_starts[k] =
                         CycleLengthsSum(c, callback.cycle_len, callback.cycle_mult)

\* the cycle (0-based) of the epoch of a batch the callback has seen
CycleOfBatch(b) == CycleOfSlot(b.local_epoch_number, callback.cycle_len, callback.cycle_mult)

\* the batch is the first one of its cycle
FirstBatchOfCycle(b) ==
    /\ b.batch_number = 0
    /\ b.local_epoch_number =
          CycleLengthsSum(CycleOfBatch(b), callback.cycle_len, callback.cycle_mult) + 1

\* C22: at every on_batch_begin of epochs 1..number_of_epochs and batches
\* 0..batches_per_epoch-1 the position satisfies 0 <= numerator < denominator,
\* is 0 at the first batch of each cycle and grows by exactly 1 from each
\* batch to the next within a cycle, also across epochs; the learning rate
\* set is init_lr exactly when the epoch lies in the first cycle and
\* numerator < init_iter, and the interpolated value otherwise
C22_CyclePosition ==
    /\ [](cbatch # None =>
            /\ cbatch.local_epoch_number \in 1..phase.epochs
            /\ cbatch.batch_number \in 0..(cbatch.batches_per_epoch - 1)
            /\ 0 <= cbatch.numerator
            /\ cbatch.numerator < cbatch.denominator
            /\ FirstBatchOfCycle(cbatch) => cbatch.numerator = 0
            /\ LET first == /\ cbatch.local_epoch_number <= callback.cycle_len
                            /\ cbatch.numerator < callback.init_iter
               IN  /\ (lr = <<callback.init_lr, 1>>) <=> first
                   /\ ~first => lr = InterpolateSingle(callback.max_lr, callback.min_lr,
                                                       cbatch.numerator, cbatch.denominator))
    /\ [][(cbatch # None /\ cbatch' # cbatch) =>
            IF CycleOfBatch(cbatch)' = CycleOfBatch(cbatch)
            THEN cbatch'.numerator = cbatch.numerator + 1
            ELSE cbatch'.numerator = 0]_vars

\* the second batch of the second epoch of the second cycle has been begun,
\* after a first cycle that started at init_lr
C22_Witness ==
    /\ cbatch # None
    /\ callback.init_iter > 0
    /\ CycleOfBatch(cbatch) = 1
    /\ cbatch.batches_per_epoch > 1
    /\ cbatch.numerator > cbatch.batches_per_epoch
====
